---- MODULE Spec2Model ----
(***************************************************************************)
(* Model of the notebook 03_factorization_machines_regression.ipynb:       *)
(*   - the batch prediction loop (cell at lines 632-644),                  *)
(*   - the accuracy expression (cell at lines 671-672),                    *)
(*   - writeDatasetToProtobuf (cell at lines 419-426).                     *)
(* Python names are kept (batch_size, predictions, X_sample, ...).         *)
(***************************************************************************)
EXTENDS Integers, Sequences, FiniteSets, TLC

(* ------------------------------ bounds -------------------------------- *)

\* largest prediction set (rows of X_pred) explored by the batch loop
MaxRows == 5
\* longest label vector explored when the accuracy expression is checked alone
MaxLen == 3
\* largest number of rows of the matrix handed to writeDatasetToProtobuf
MaxExamples == 2
\* largest feature dimension (columns) of that matrix
MaxFeatures == 2
\* largest number of stored entries of that matrix
MaxNnz == 2

(* ------------------------- value domains ------------------------------ *)

\* labels the endpoint can answer / the ground truth can hold in the loop model
Labels == {4, 5}
\* labels used when the accuracy expression is checked on its own
AccLabels == {2, 3, 4, 5}
\* values a stored entry can hold (1.0 for a one-hot column)
Values == {1, 2}
\* what the remote call can throw (botocore / urllib3 exception types)
Failures == {"ClientError", "ReadTimeoutError"}
\* "no exception": the value of `raised` while nothing has been thrown
NoException == [type |-> "none", cause |-> "none", attrs |-> {}]
\* "not computed yet": the value of `acc` before the accuracy cell ran
NoAccuracy == [kind |-> "none", num |-> 0, den |-> 1]

Min(a, b) == IF a < b THEN a ELSE b

(* --------------------------- state ------------------------------------ *)

VARIABLES
    pc,           \* position in the notebook: start, loop, predict, append,
                  \* raised, done, scored
    X_pred,       \* the prediction rows, a sequence of row identities
    Y_pred,       \* ground-truth labels, aligned with X_pred
    endpoint,     \* the opaque hosted model: row -> predicted label
    batch_size,   \* line 634
    predictions,  \* line 635, the accumulator
    batches,      \* line 637
    i,            \* loop variable of line 639
    X_sample,     \* line 640
    result,       \* line 641, the deserialized response
    inflight,     \* ids of predict calls issued and not yet answered
    calls,        \* history of the predict calls issued, in issue order
    raised,       \* the exception that left the loop cell, if any
    acc,          \* value of the accuracy expression of line 672
    X,            \* the sparse matrix handed to writeDatasetToProtobuf
    y,            \* its label vector
    buf,          \* the io.BytesIO of line 421, as last written
    s3,           \* the bucket: object name -> stored stream (or Absent)
    train_data_location,  \* line 437, the value writeDatasetToProtobuf returned
    session_region,       \* what boto3.Session().region_name reports (line 123)
    region_name,          \* lines 123-125
    buckets,              \* names of the S3 buckets that exist
    training_image,       \* line 472
    dense,                \* the dense array X[0:max_records].values of line 389
    record_data_train     \* line 389, the records fm.record_set wrote

pvars == <<pc, X_pred, Y_pred, endpoint, batch_size, predictions, batches, i,
           X_sample, result, inflight, calls, raised, acc>>

evars == <<X, y, buf, s3, train_data_location>>

nvars == <<session_region, region_name, buckets, training_image, dense,
           record_data_train>>

vars == <<pvars, evars, nvars>>

(* ------------------- the batch prediction loop ------------------------ *)

\* Python slicing s[lo:hi] for 0 <= lo <= hi: the end is clipped to len(s)
Slice(s, lo, hi) == SubSeq(s, lo + 1, Min(hi, Len(s)))

NumBatchesCeil(n, bs) == (n + bs - 1) \div bs
\* line 637: batches = int(X_pred.shape[0]/batch_size)
NumBatches(n, bs) == n \div bs

\* line 640: first row (0-based, inclusive) of batch k
SampleLo(k, bs) == k * bs

\* line 640: end row (0-based, exclusive) of batch k
SampleHi(k, bs) == (k + 1) * bs

\* line 641, success: the endpoint answers one {predicted_label, score} per
\* row of the batch, in the batch's row order
Predict(sample) ==
    [predictions |->
        [k \in 1..Len(sample) |->
            [predicted_label |-> endpoint[sample[k]],
             score           |-> endpoint[sample[k]]]]]

\* line 641, failure: the exception object the remote call throws
Thrown(f) == [type |-> f, cause |-> "none", attrs |-> {}]

\* line 642: [r['predicted_label'] for r in result['predictions']]
PredictedLabels(res) ==
    [k \in 1..Len(res.predictions) |-> res.predictions[k].predicted_label]

ExtendFront(p, more) == more \o p
\* line 642: predictions += [...]
Extend(p, more) == p \o more

\* lines 639-642 hold no try/except: what predict throws leaves the cell as is
Propagate(exc) == exc

DiscardOnRaise(p) == <<>>
\* line 635/642: predictions is a notebook global extended in place, so an
\* exception leaves in it whatever the earlier batches appended
KeptOnRaise(p) == p

ResumeAfterFailure == "loop"
\* an uncaught exception ends the execution of the cell
AfterFailure == "raised"

CanSubmitOverlapped == pc \in {"loop", "predict"} /\ i < batches
\* line 639-641: the next call is made by the loop body, after the previous
\* iteration finished
CanSubmit == pc = "loop" /\ i < batches

\* lines 634-637
BatchSetup ==
    /\ pc = "start"
    /\ predictions' = <<>>
    /\ batches' = NumBatches(Len(X_pred), batch_size)
    /\ i' = 0
    /\ pc' = "loop"
    /\ UNCHANGED evars
    /\ UNCHANGED nvars
    /\ UNCHANGED <<X_pred, Y_pred, endpoint, batch_size, X_sample, result,
                   inflight, calls, raised, acc>>

\* lines 639-641: slice the batch and issue the blocking predict call
Submit ==
    /\ CanSubmit
    /\ X_sample' = Slice(X_pred, SampleLo(i, batch_size), SampleHi(i, batch_size))
    /\ inflight' = inflight \cup {Len(calls) + 1}
    /\ calls' = Append(calls, [batch   |-> i,
                               lo      |-> SampleLo(i, batch_size),
                               hi      |-> SampleHi(i, batch_size),
                               rows    |-> X_sample',
                               seen    |-> Len(predictions),
                               outcome |-> "pending"])
    /\ pc' = "predict"
    /\ UNCHANGED evars
    /\ UNCHANGED nvars
    /\ UNCHANGED <<X_pred, Y_pred, endpoint, batch_size, predictions, batches,
                   i, result, raised, acc>>

\* line 641: the call returns the deserialized response
PredictReturn ==
    /\ pc = "predict"
    /\ result' = Predict(X_sample)
    /\ inflight' = inflight \ {Len(calls)}
    /\ calls' = [calls EXCEPT ![Len(calls)].outcome = "ok"]
    /\ pc' = "append"
    /\ UNCHANGED evars
    /\ UNCHANGED nvars
    /\ UNCHANGED <<X_pred, Y_pred, endpoint, batch_size, predictions, batches,
                   i, X_sample, raised, acc>>

\* line 641: the call throws; nothing in the cell catches it
PredictRaise ==
    /\ pc = "predict"
    /\ \E f \in Failures :
          /\ raised' = Propagate(Thrown(f))
          /\ calls' = [calls EXCEPT ![Len(calls)].outcome = f]
    /\ inflight' = inflight \ {Len(calls)}
    /\ predictions' = KeptOnRaise(predictions)
    /\ pc' = AfterFailure
    /\ UNCHANGED evars
    /\ UNCHANGED nvars
    /\ UNCHANGED <<X_pred, Y_pred, endpoint, batch_size, batches, i, X_sample,
                   result, acc>>

\* line 642, then the loop header of line 639 advances i
AppendResults ==
    /\ pc = "append"
    /\ predictions' = Extend(predictions, PredictedLabels(result))
    /\ i' = i + 1
    /\ pc' = "loop"
    /\ UNCHANGED evars
    /\ UNCHANGED nvars
    /\ UNCHANGED <<X_pred, Y_pred, endpoint, batch_size, batches, X_sample,
                   result, inflight, calls, raised, acc>>

\* line 639 exhausted, line 644: predictions = np.array(predictions), which
\* keeps the elements and their order
LoopExit ==
    /\ pc = "loop"
    /\ ~(i < batches)
    /\ pc' = "done"
    /\ UNCHANGED evars
    /\ UNCHANGED nvars
    /\ UNCHANGED <<X_pred, Y_pred, endpoint, batch_size, predictions, batches,
                   i, X_sample, result, inflight, calls, raised, acc>>

(* --------------------- the accuracy expression ------------------------ *)

\* numpy broadcasting of two 1-d shapes (a,) and (b,): the common length, or
\* -1 when the shapes cannot be broadcast together
BroadcastLen(a, b) ==
    IF a = b THEN a
    ELSE IF a = 1 THEN b
    ELSE IF b = 1 THEN a
    ELSE -1

LabelNear(a, b) == a - b \in {-1, 0, 1}
\* element comparison of ==: exact equality
LabelEq(a, b) == a = b

\* line 672: Y_pred == predictions. Shapes that broadcast are compared
\* element by element; otherwise the numpy of the notebook's Python 3.6
\* kernel (line 723) answers the scalar False
NpEqual(actual, predicted) ==
    LET n == BroadcastLen(Len(actual), Len(predicted))
    IN  IF n = -1 THEN <<FALSE>>
        ELSE [k \in 1..n |->
                LabelEq(actual[IF Len(actual) = 1 THEN 1 ELSE k],
                        predicted[IF Len(predicted) = 1 THEN 1 ELSE k])]

\* line 672: np.sum over booleans counts the True entries
NpSum(bs) == Cardinality({k \in DOMAIN bs : bs[k]})

\* line 672: np.sum(Y_pred == predictions) / len(Y_pred), kept as the
\* fraction num/den
computeAccuracy(predicted, actual) ==
    IF Len(actual) = 0
    THEN [kind |-> "nan", num |-> 0, den |-> 1]
    ELSE [kind |-> "value",
          num  |-> NpSum(NpEqual(actual, predicted)),
          den  |-> Len(actual)]

\* lines 671-672
Accuracy ==
    /\ pc = "done"
    /\ acc' = computeAccuracy(predictions, Y_pred)
    /\ pc' = "scored"
    /\ UNCHANGED evars
    /\ UNCHANGED nvars
    /\ UNCHANGED <<X_pred, Y_pred, endpoint, batch_size, predictions, batches,
                   i, X_sample, result, inflight, calls, raised>>

(* ---------------------- writeDatasetToProtobuf ------------------------ *)

\* the value of an object name nothing was uploaded under
Absent == <<-1>>

\* the entries of X are (row, col, value) triples, 0-based, as a scipy
\* coo_matrix holds them; the columns X stores in row r
RowCols(M, r) == {M.entries[k][2] : k \in {q \in DOMAIN M.entries : M.entries[q][1] = r}}

\* ascending enumeration of a finite set of integers
RECURSIVE SortedSeq(_)
SortedSeq(S) ==
    IF S = {} THEN <<>>
    ELSE LET m == CHOOSE a \in S : \A b \in S : a <= b
         IN  <<m>> \o SortedSeq(S \ {m})

\* sum of the values X stores at (r, c) among its first k entries
RECURSIVE SumAt(_, _, _, _)
SumAt(M, r, c, k) ==
    IF k = 0 THEN 0
    ELSE SumAt(M, r, c, k - 1)
         + (IF M.entries[k][1] = r /\ M.entries[k][2] = c THEN M.entries[k][3] ELSE 0)

\* line 422, array.tocsr() then getrow(r): the row's column indices in
\* ascending order, entries stored at the same position added up
CsrIndices(M, r) == SortedSeq(RowCols(M, r))

\* line 422: the row's values, aligned with CsrIndices
CsrData(M, r) ==
    [k \in 1..Len(CsrIndices(M, r)) |->
        SumAt(M, r, CsrIndices(M, r)[k], Len(M.entries))]

RecordAllColumns(M, r, labels) ==
    <<M.ncol, M.ncol>> \o [c \in 1..M.ncol |-> c - 1]
        \o [c \in 1..M.ncol |-> SumAt(M, r, c - 1, Len(M.entries))]
        \o <<labels[r + 1]>>
RecordFirstLabel(M, r, labels) ==
    <<M.ncol, Len(CsrIndices(M, r))>> \o CsrIndices(M, r) \o CsrData(M, r)
        \o <<labels[1]>>
\* line 422: the record of row r, as a word sequence: the shape (n_cols),
\* the number of keys (the packed key list is length-delimited), the keys,
\* the values in the matrix's own dtype (float32 after line 294, so nothing
\* is rounded), and the row's label
Record(M, r, labels) ==
    <<M.ncol, Len(CsrIndices(M, r))>> \o CsrIndices(M, r) \o CsrData(M, r)
        \o <<labels[r + 1]>>

\* line 422, _write_recordio: each record is written behind its length
WriteRecordio(stream, payload) == stream \o <<Len(payload)>> \o payload

\* line 422: smac.write_spmatrix_to_sparse_tensor(buf, X, y), rows 0..n-1
RECURSIVE WriteRows(_, _, _)
WriteRows(M, labels, n) ==
    IF n = 0 THEN <<>>
    ELSE WriteRecordio(WriteRows(M, labels, n - 1), Record(M, n - 1, labels))

write_spmatrix_to_sparse_tensor(M, labels) == WriteRows(M, labels, M.nrow)

\* line 424: obj = '{}/{}'.format(prefix, key)
ObjectName(prefix, key) == <<prefix, "/", key>>

\* line 426: 's3://{}/{}'.format(bucket, obj)
S3Uri(bucket, obj) == <<"s3://", bucket, "/">> \o obj

UploadNothing(store, obj, body) == store
\* line 425: Bucket(bucket).Object(obj).upload_fileobj(buf)
Upload(store, obj, body) == [store EXCEPT ![obj] = body]

\* line 437 (and the commented call of line 438): the arguments of the calls
default_bucket == "bucket"
Prefix == "protobuf"
Keys == {"train", "test"}
ObjectNames == {ObjectName(Prefix, k) : k \in Keys}

\* lines 419-426, the upload succeeds
writeDatasetToProtobuf(bucket, prefix, key) ==
    /\ pc \in {"convert", "converted"}
    /\ buf' = write_spmatrix_to_sparse_tensor(X, y)
    /\ s3' = Upload(s3, ObjectName(prefix, key), buf')
    /\ train_data_location' = S3Uri(bucket, ObjectName(prefix, key))
    /\ pc' = "converted"
    /\ UNCHANGED nvars
    /\ UNCHANGED <<X, y>>
    /\ UNCHANGED <<X_pred, Y_pred, endpoint, batch_size, predictions, batches,
                   i, X_sample, result, inflight, calls, raised, acc>>

\* lines 419-426, the upload of line 425 throws (e.g. the EntityTooLarge of
\* line 401): the buffer was written, nothing is stored, nothing is returned
writeDatasetToProtobufFails(bucket, prefix, key) ==
    /\ pc \in {"convert", "converted"}
    /\ buf' = write_spmatrix_to_sparse_tensor(X, y)
    /\ raised' = Propagate(Thrown("ClientError"))
    /\ pc' = "raised"
    /\ UNCHANGED nvars
    /\ UNCHANGED <<X, y, s3, train_data_location>>
    /\ UNCHANGED <<X_pred, Y_pred, endpoint, batch_size, predictions, batches,
                   i, X_sample, result, inflight, calls, acc>>

Convert == \E k \in Keys : writeDatasetToProtobuf(default_bucket, Prefix, k)

ConvertFails == \E k \in Keys : writeDatasetToProtobufFails(default_bucket, Prefix, k)

(* -------------------------- specifications ---------------------------- *)

RowIds(n) == [j \in 1..n |-> j]

\* the conversion cell has not run and is not part of the run
EncIdle ==
    /\ X = [nrow |-> 0, ncol |-> 0, entries |-> <<>>]
    /\ y = <<>>
    /\ buf = <<>>
    /\ s3 = [o \in ObjectNames |-> Absent]
    /\ train_data_location = <<>>

\* the region, bucket, image and record_set cells are not part of the run
RestIdle ==
    /\ session_region = "None"
    /\ region_name = "None"
    /\ buckets = {}
    /\ training_image = "None"
    /\ dense = <<>>
    /\ record_data_train = <<>>

\* the batch cell has not run and is not part of the run
LoopIdle ==
    /\ X_pred = <<>>
    /\ Y_pred = <<>>
    /\ endpoint = <<>>
    /\ batch_size = 1
    /\ predictions = <<>>
    /\ batches = 0
    /\ i = 0
    /\ X_sample = <<>>
    /\ result = [predictions |-> <<>>]
    /\ inflight = {}
    /\ calls = <<>>
    /\ acc = NoAccuracy

\* the state before the batch cell runs: a non-empty prediction split (the
\* 10% test split of line 258), its labels, a hosted model, a batch size >= 1
Init ==
    /\ pc = "start"
    /\ \E n \in 1..MaxRows :
          /\ X_pred = RowIds(n)
          /\ Y_pred \in [1..n -> Labels]
          /\ endpoint \in [1..n -> Labels]
          /\ batch_size \in 1..(n + 1)
    /\ predictions = <<>>
    /\ batches = 0
    /\ i = 0
    /\ X_sample = <<>>
    /\ result = [predictions |-> <<>>]
    /\ inflight = {}
    /\ calls = <<>>
    /\ raised = NoException
    /\ acc = NoAccuracy
    /\ EncIdle
    /\ RestIdle

Next ==
    \/ BatchSetup
    \/ Submit
    \/ PredictReturn
    \/ PredictRaise
    \/ AppendResults
    \/ LoopExit
    \/ Accuracy

Spec == Init /\ [][Next]_vars

\* the accuracy expression alone, on label vectors drawn from bounded sets
InitAcc ==
    /\ pc = "done"
    /\ \E n \in 1..MaxLen, m \in 0..MaxLen :
          /\ X_pred = RowIds(n)
          /\ Y_pred \in [1..n -> AccLabels]
          /\ predictions \in [1..m -> AccLabels]
    /\ endpoint = <<>>
    /\ batch_size = 1
    /\ batches = 0
    /\ i = 0
    /\ X_sample = <<>>
    /\ result = [predictions |-> <<>>]
    /\ inflight = {}
    /\ calls = <<>>
    /\ raised = NoException
    /\ acc = NoAccuracy
    /\ EncIdle
    /\ RestIdle

NextAcc == Accuracy

SpecAcc == InitAcc /\ [][NextAcc]_vars

\* the conversion cell alone, on sparse matrices drawn from bounded sets:
\* any coo_matrix of the shape (repeated positions included) with one label
\* per row (y is a column of the same frame as X, lines 351-352)
Triples(nr, nc) == (0..(nr - 1)) \X (0..(nc - 1)) \X Values

SeqsUpTo(S, n) == UNION {[1..k -> S] : k \in 0..n}

InitEnc ==
    /\ pc = "convert"
    /\ \E nr \in 1..MaxExamples, nc \in 1..MaxFeatures :
          /\ X \in {[nrow |-> nr, ncol |-> nc, entries |-> es] :
                        es \in SeqsUpTo(Triples(nr, nc), MaxNnz)}
          /\ y \in [1..nr -> Labels]
    /\ buf = <<>>
    /\ s3 = [o \in ObjectNames |-> Absent]
    /\ train_data_location = <<>>
    /\ raised = NoException
    /\ LoopIdle
    /\ RestIdle

NextEnc ==
    \/ Convert
    \/ ConvertFails

SpecEnc == InitEnc /\ [][NextEnc]_vars

(* ----------------------- properties: batch loop ----------------------- *)

\* the rows handed to predict so far, in the order they were handed over
RECURSIVE SubmittedRows(_)
SubmittedRows(k) ==
    IF k = 0 THEN <<>> ELSE SubmittedRows(k - 1) \o calls[k].rows

\* C1: partition completeness -- when the batch loop has finished, it holds
\* one prediction for every row of the dataset, whatever the batch size.
C1_PartitionComplete ==
    pc \in {"done", "scored"} => Len(predictions) = Len(X_pred)

\* C2: order preservation -- when every predict call succeeded, the returned
\* sequence is as long as the rows submitted, its j-th element is the
\* prediction produced for the j-th submitted row, and that row is the j-th
\* row of the dataset (nothing reordered, duplicated or dropped).
C2_OrderPreserved ==
    pc \in {"done", "scored"} =>
        LET sub == SubmittedRows(Len(calls))
        IN  /\ Len(predictions) = Len(sub)
            /\ \A j \in 1..Len(sub) :
                  /\ sub[j] = X_pred[j]
                  /\ predictions[j] = endpoint[sub[j]]

\* a finished run of at least two batches whose predictions are not all equal
C2_Witness ==
    /\ pc = "done"
    /\ Len(calls) >= 2
    /\ batch_size >= 2
    /\ \E j, k \in 1..Len(predictions) : predictions[j] # predictions[k]

\* the batch indices of the calls issued are 0, 1, 2, ... each exactly once
CallsInOrder ==
    \A k \in 1..Len(calls) : calls[k].batch = k - 1

\* C3 as claimed: a failing predict call for batch k is not retried, no later
\* batch is submitted, and the caller receives a PredictionError carrying the
\* underlying failure, the batch index k and the row range attempted.
C3_AsClaimed ==
    raised # NoException =>
        /\ pc = "raised"
        /\ CallsInOrder
        /\ Len(calls) = i + 1
        /\ raised.type = "PredictionError"
        /\ raised.cause = calls[Len(calls)].outcome
        /\ raised.attrs = {<<"batch", i>>,
                           <<"lo", SampleLo(i, batch_size)>>,
                           <<"hi", SampleHi(i, batch_size)>>}

\* C3 amended: a failing predict call for batch k is not retried, no later
\* batch is submitted (the cell stops there, nothing is in flight), and the
\* caller receives the underlying failure itself, unwrapped: it carries
\* neither the batch index nor the row range.
C3_FailFast ==
    raised # NoException =>
        /\ pc = "raised"
        /\ ~ ENABLED Next
        /\ inflight = {}
        /\ CallsInOrder
        /\ Len(calls) = i + 1
        /\ \A k \in 1..(Len(calls) - 1) : calls[k].outcome = "ok"
        /\ raised.type \in Failures
        /\ raised.type = calls[Len(calls)].outcome
        /\ raised.cause = "none"
        /\ raised.attrs = {}

\* a failure in the middle of a run: earlier batches done, later ones left
C3_Witness ==
    /\ pc = "raised"
    /\ i >= 1
    /\ i + 1 < batches

\* C4 as claimed: predict throws on batch 2 of 5; the caller gets a
\* PredictionError referencing batch 2 and holds none of the predictions of
\* batches 0 and 1.
C4_AsClaimed ==
    (raised # NoException /\ batches = 5 /\ i = 2) =>
        /\ raised.type = "PredictionError"
        /\ <<"batch", 2>> \in raised.attrs
        /\ predictions = <<>>

\* C4 amended: predict throws on batch 2 of 5; the underlying failure leaves
\* the cell while batch 2 is the current batch, and the accumulator still
\* holds exactly the predictions of batches 0 and 1, in row order.
C4_PartialKept ==
    (raised # NoException /\ batches = 5 /\ i = 2) =>
        /\ pc = "raised"
        /\ raised.type \in Failures
        /\ calls[Len(calls)].batch = 2
        /\ Len(predictions) = 2 * batch_size
        /\ \A j \in 1..(2 * batch_size) : predictions[j] = endpoint[X_pred[j]]

\* the failure-injection scenario itself: 5 batches, the third call throws
C4_Witness ==
    /\ pc = "raised"
    /\ batches = 5
    /\ i = 2
    /\ Len(calls) = 3
    /\ Len(predictions) = 2

\* C5: sequential submission -- calls are issued in increasing dataset order,
\* at most one is in flight, and a call is issued only once every earlier
\* call was answered successfully and its results were appended.
C5_Sequential ==
    /\ Cardinality(inflight) <= 1
    /\ CallsInOrder
    /\ \A k \in 1..Len(calls) :
          /\ calls[k].lo = (k - 1) * batch_size
          /\ calls[k].seen = (k - 1) * batch_size
          /\ k < Len(calls) => calls[k].outcome = "ok"
    /\ inflight = (IF pc = "predict" THEN {Len(calls)} ELSE {})
    /\ pc = "predict" => Len(predictions) = i * batch_size

\* the second call is in flight after the first one's results were appended
C5_Witness ==
    /\ pc = "predict"
    /\ Len(calls) = 2
    /\ inflight = {2}
    /\ Len(predictions) = batch_size

(* ------------------- properties: accuracy expression ------------------ *)

Matches(predicted, actual) ==
    Cardinality({k \in 1..Len(actual) : predicted[k] = actual[k]})

\* C6: on two equal-length label sequences the accuracy is the number of
\* positions with exactly equal labels divided by the length, so it lies in
\* [0,1]; it is 1 for ([4,5,3],[4,5,3]) and 2/3 for ([4,5,3],[4,5,2]).
C6_Accuracy ==
    (pc = "scored" /\ Len(predictions) = Len(Y_pred)) =>
        /\ acc.kind = "value"
        /\ acc.den = Len(Y_pred)
        /\ acc.num = Matches(predictions, Y_pred)
        /\ 0 <= acc.num /\ acc.num <= acc.den /\ acc.den > 0
        /\ (predictions = <<4, 5, 3>> /\ Y_pred = <<4, 5, 3>>)
              => acc.num = acc.den
        /\ (predictions = <<4, 5, 3>> /\ Y_pred = <<4, 5, 2>>)
              => 3 * acc.num = 2 * acc.den

\* the 2/3 example has been evaluated
C6_Witness ==
    /\ pc = "scored"
    /\ predictions = <<4, 5, 3>>
    /\ Y_pred = <<4, 5, 2>>
    /\ acc = [kind |-> "value", num |-> 2, den |-> 3]

\* C7: the accuracy computation raises a ValidationError whenever the two
\* sequences differ in length; it never yields a number then.
C7_AsClaimed ==
    (pc = "scored" /\ Len(predictions) # Len(Y_pred)) =>
        acc.kind = "ValidationError"

(* ----------------- properties: writeDatasetToProtobuf ----------------- *)

\* the record stream read back: each length-prefixed record gives one row
\* (feature count, nonzero count, indices, values, label); a record whose
\* declared counts do not fit what is present is a DecodingError
RECURSIVE DecodeFrom(_, _)
DecodeFrom(stream, pos) ==
    IF pos > Len(stream) THEN [ok |-> TRUE, rows |-> <<>>]
    ELSE LET n == stream[pos]
         IN  IF n < 3 \/ pos + n > Len(stream)
             THEN [ok |-> FALSE, rows |-> <<>>]
             ELSE LET payload == SubSeq(stream, pos + 1, pos + n)
                      k == payload[2]
                      rest == DecodeFrom(stream, pos + n + 1)
                  IN  IF n # 2 * k + 3 \/ ~rest.ok
                      THEN [ok |-> FALSE, rows |-> <<>>]
                      ELSE [ok |-> TRUE,
                            rows |-> <<[featureCount |-> payload[1],
                                        indices |-> SubSeq(payload, 3, 2 + k),
                                        values  |-> SubSeq(payload, 3 + k, 2 + 2 * k),
                                        label   |-> payload[n]]>> \o rest.rows]

decode(stream) ==
    IF DecodeFrom(stream, 1).ok THEN DecodeFrom(stream, 1).rows
    ELSE <<"DecodingError">>

\* some position (row, col) of the matrix is stored more than once
HasDuplicateIndex(M) ==
    \E p, q \in DOMAIN M.entries :
        /\ p # q
        /\ M.entries[p][1] = M.entries[q][1]
        /\ M.entries[p][2] = M.entries[q][2]

\* a valid SparseDataset: non-empty, one label per row, indices in bounds
\* and unique within each row
ValidDataset(M, labels) ==
    /\ M.nrow >= 1
    /\ Len(labels) = M.nrow
    /\ \A q \in DOMAIN M.entries :
          /\ M.entries[q][1] \in 0..(M.nrow - 1)
          /\ M.entries[q][2] \in 0..(M.ncol - 1)
    /\ ~HasDuplicateIndex(M)

\* the value a valid matrix stores at (r, c)
ValueAt(M, r, c) ==
    M.entries[CHOOSE q \in DOMAIN M.entries :
                  M.entries[q][1] = r /\ M.entries[q][2] = c][3]

\* the dataset as SparseRows: row r with its indices in ascending order,
\* the value stored at each, and its label
DatasetRows(M, labels) ==
    [n \in 1..M.nrow |->
        LET idx == SortedSeq(RowCols(M, n - 1))
        IN  [featureCount |-> M.ncol,
             indices |-> idx,
             values  |-> [k \in 1..Len(idx) |-> ValueAt(M, n - 1, idx[k])],
             label   |-> labels[n]]]

C9_AsClaimed == [][s3' = s3]_vars

\* C9 amended: writeDatasetToProtobuf serializes into an in-memory buffer and
\* then itself uploads that buffer: a call that returns has written exactly
\* one object, prefix/key of the bucket, holding the stream, and returns its
\* s3:// URI; a call whose upload throws stores nothing; the dataset is
\* never changed.
C9_UploadsOneObject ==
    [][ /\ X' = X /\ y' = y
        /\ buf' = write_spmatrix_to_sparse_tensor(X, y)
        /\ pc' = "converted" =>
              \E k \in Keys :
                  /\ s3' = [s3 EXCEPT ![ObjectName(Prefix, k)] = buf']
                  /\ train_data_location' =
                        <<"s3://", default_bucket, "/", Prefix, "/", k>>
        /\ pc' # "converted" =>
              /\ pc' = "raised"
              /\ s3' = s3
              /\ train_data_location' = train_data_location ]_vars

\* the train object was uploaded and holds the stream of a non-empty matrix
C9_Witness ==
    /\ pc = "converted"
    /\ Len(X.entries) >= 1
    /\ s3[ObjectName(Prefix, "train")] = buf
    /\ s3[ObjectName(Prefix, "test")] = Absent
    /\ train_data_location = <<"s3://", default_bucket, "/", Prefix, "/", "train">>

\* C10: the conversion raises an EncodingError and produces no record stream
\* whenever a row holds a duplicate feature index.
C10_AsClaimed ==
    (pc \in {"converted", "raised"} /\ HasDuplicateIndex(X)) =>
        /\ raised.type = "EncodingError"
        /\ buf = <<>>
        /\ \A o \in ObjectNames : s3[o] = Absent

(* ------------------ properties: partitioning policy ------------------- *)

\* C12: for n rows and a positive batch size the loop makes exactly
\* floor(n / batch_size) predict calls; call number k (from 0) receives
\* exactly the contiguous rows [k*batch_size, (k+1)*batch_size), so batches
\* do not overlap and each has batch_size rows, and the trailing
\* n mod batch_size rows are never submitted (no call when batch_size > n).
C12_FullBatchesOnly ==
    /\ \A k \in 1..Len(calls) :
          /\ Len(calls[k].rows) = batch_size
          /\ \A j \in 1..batch_size :
                calls[k].rows[j] = X_pred[(k - 1) * batch_size + j]
    /\ pc \in {"done", "scored"} =>
          /\ Len(calls) * batch_size <= Len(X_pred)
          /\ Len(X_pred) < (Len(calls) + 1) * batch_size
          /\ batch_size > Len(X_pred) => calls = <<>>
          /\ \A r \in 1..Len(X_pred) :
                (r > Len(X_pred) - (Len(X_pred) % batch_size))
                    => \A k \in 1..Len(calls) :
                          \A j \in 1..Len(calls[k].rows) : calls[k].rows[j] # r

\* a finished run over 5 rows in batches of 2: two calls, the last row left
C12_Witness ==
    /\ pc = "done"
    /\ Len(X_pred) = 5
    /\ batch_size = 2
    /\ Len(calls) = 2
    /\ Len(predictions) = 4

(* ------------------- region selection and image lookup ---------------- *)

\* line 122
available_regions == <<"us-east-1", "us-east-2", "us-west-2", "eu-west-1">>

\* line 65
project_name == "sagemaker-workshop-movie-recommender"

\* lines 466-470 (image URIs shortened to account and region)
fm_containers ==
    [r \in {"us-west-2", "us-east-1", "us-east-2", "eu-west-1"} |->
        CASE r = "us-west-2" -> <<"174872318107", r>>
          [] r = "us-east-1" -> <<"382416733822", r>>
          [] r = "us-east-2" -> <<"404615174143", r>>
          [] r = "eu-west-1" -> <<"438346466558", r>>]

\* the regions a boto3 session can report: the four above, regions outside
\* the list, and None when no region is configured
SessionRegions ==
    {"us-east-1", "us-east-2", "us-west-2", "eu-west-1",
     "us-west-1", "eu-central-1", "ap-southeast-2", "None"}

\* Python `x in list`
InList(x, l) == \E k \in DOMAIN l : l[k] = x

KeepSessionRegion(r) == r
\* lines 123-125: an unlisted (or missing) region becomes the first listed one
SelectedRegion(r) == IF ~InList(r, available_regions) THEN available_regions[1] ELSE r

\* line 127: '{}-{}'.format(project_name, region_name)
BucketName(project, region) == <<project, "-", region>>

\* line 472: d[k], a KeyError when k is no key of d
Lookup(d, k) == IF k \in DOMAIN d THEN d[k] ELSE <<"KeyError", k>>

\* lines 122-128
SelectRegion ==
    /\ pc = "region"
    /\ region_name' = SelectedRegion(session_region)
    /\ pc' = "bucket"
    /\ UNCHANGED <<session_region, buckets, training_image, dense, record_data_train>>
    /\ UNCHANGED evars
    /\ UNCHANGED <<X_pred, Y_pred, endpoint, batch_size, predictions, batches,
                   i, X_sample, result, inflight, calls, raised, acc>>

\* lines 138-141, the service creates (or already holds) the bucket
CreateBucket ==
    /\ pc = "bucket"
    /\ buckets' = buckets \cup {BucketName(project_name, region_name)}
    /\ pc' = "image"
    /\ UNCHANGED <<session_region, region_name, training_image, dense, record_data_train>>
    /\ UNCHANGED evars
    /\ UNCHANGED <<X_pred, Y_pred, endpoint, batch_size, predictions, batches,
                   i, X_sample, result, inflight, calls, raised, acc>>

\* lines 138-141, the service refuses the request: the exception leaves the cell
CreateBucketFails ==
    /\ pc = "bucket"
    /\ raised' = Propagate(Thrown("ClientError"))
    /\ pc' = "raised"
    /\ UNCHANGED nvars
    /\ UNCHANGED evars
    /\ UNCHANGED <<X_pred, Y_pred, endpoint, batch_size, predictions, batches,
                   i, X_sample, result, inflight, calls, acc>>

\* lines 466-472
TrainingImage ==
    /\ pc = "image"
    /\ training_image' = Lookup(fm_containers, region_name)
    /\ pc' = "fit"
    /\ UNCHANGED <<session_region, region_name, buckets, dense, record_data_train>>
    /\ UNCHANGED evars
    /\ UNCHANGED <<X_pred, Y_pred, endpoint, batch_size, predictions, batches,
                   i, X_sample, result, inflight, calls, raised, acc>>

\* before the region cell: any session region, any set of the project's
\* buckets left over from earlier runs
InitRegion ==
    /\ pc = "region"
    /\ session_region \in SessionRegions
    /\ region_name = "None"
    /\ buckets \in SUBSET {BucketName(project_name, available_regions[k]) :
                              k \in DOMAIN available_regions}
    /\ training_image = "None"
    /\ dense = <<>>
    /\ record_data_train = <<>>
    /\ raised = NoException
    /\ LoopIdle
    /\ EncIdle

NextRegion ==
    \/ SelectRegion
    \/ CreateBucket
    \/ CreateBucketFails
    \/ TrainingImage

SpecRegion == InitRegion /\ [][NextRegion]_vars

\* C13: after the region selection step region_name is a member of
\* available_regions whatever the session reported (an unsupported or
\* missing region is replaced by the first available one, a listed one is
\* kept), every member of available_regions is a key of fm_containers, and
\* so the training-image lookup is defined.
C13_RegionSupported ==
    /\ \A k \in DOMAIN available_regions :
          available_regions[k] \in DOMAIN fm_containers
    /\ pc # "region" =>
          /\ \E k \in DOMAIN available_regions : region_name = available_regions[k]
          /\ region_name = (IF \E k \in DOMAIN available_regions :
                                    session_region = available_regions[k]
                            THEN session_region ELSE "us-east-1")
          /\ region_name \in DOMAIN fm_containers
    /\ pc = "fit" =>
          /\ training_image = fm_containers[region_name]
          /\ training_image[1] # "KeyError"

\* the image was looked up after an unlisted session region was replaced
C13_Witness ==
    /\ pc = "fit"
    /\ session_region = "eu-central-1"
    /\ region_name = "us-east-1"
    /\ training_image = <<"382416733822", "us-east-1">>

(* --------------------- Option 1: fm.record_set ------------------------ *)

\* line 388
max_records == 1000

\* line 389, X.values: the dense array of the frame, one entry per column
Densify(M) ==
    [r \in 1..M.nrow |->
        [c \in 1..M.ncol |-> SumAt(M, r - 1, c - 1, Len(M.entries))]]

\* line 389, record_set on a dense array: the record of a row holds every
\* value of the row, zeros included, and the row's label
DenseRecord(row, label) == row \o <<label>>

\* line 389: the records of the first n rows, each behind its length
RECURSIVE WriteDenseRows(_, _, _)
WriteDenseRows(rows, labels, n) ==
    IF n = 0 THEN <<>>
    ELSE WriteRecordio(WriteDenseRows(rows, labels, n - 1),
                       DenseRecord(rows[n], labels[n]))

\* line 389: fm.record_set(X[0:max_records].values, labels=y[0:max_records]);
\* the dense array is built before the call, the records are stored in the
\* session's bucket
RecordSet ==
    /\ pc = "convert"
    /\ dense' = Slice(Densify(X), 0, max_records)
    /\ record_data_train' =
          WriteDenseRows(dense', Slice(y, 0, max_records), Len(dense'))
    /\ pc' = "convert"
    /\ UNCHANGED <<session_region, region_name, buckets, training_image>>
    /\ UNCHANGED evars
    /\ UNCHANGED <<X_pred, Y_pred, endpoint, batch_size, predictions, batches,
                   i, X_sample, result, inflight, calls, raised, acc>>

\* line 389, the upload throws (the EntityTooLarge of line 401): the dense
\* array was built, no record set exists
RecordSetFails ==
    /\ pc = "convert"
    /\ dense' = Slice(Densify(X), 0, max_records)
    /\ raised' = Propagate(Thrown("ClientError"))
    /\ pc' = "raised"
    /\ UNCHANGED <<session_region, region_name, buckets, training_image,
                   record_data_train>>
    /\ UNCHANGED evars
    /\ UNCHANGED <<X_pred, Y_pred, endpoint, batch_size, predictions, batches,
                   i, X_sample, result, inflight, calls, acc>>

\* line 437, the call the notebook makes
ConvertTrain == writeDatasetToProtobuf(default_bucket, Prefix, "train")

ConvertTrainFails == writeDatasetToProtobufFails(default_bucket, Prefix, "train")

\* both conversions of the notebook, Option 1 (line 389) before Option 2
\* (line 437), on the inputs of InitEnc
NextConv ==
    \/ RecordSet
    \/ RecordSetFails
    \/ ConvertTrain
    \/ ConvertTrainFails

SpecConv == InitEnc /\ [][NextConv]_vars

(* -------------------- properties: sparsity scaling -------------------- *)

\* the declared lengths of the records of a stream, in stream order
RECURSIVE RecordSizesFrom(_, _)
RecordSizesFrom(stream, pos) ==
    IF pos > Len(stream) THEN <<>>
    ELSE <<stream[pos]>> \o RecordSizesFrom(stream, pos + stream[pos] + 1)

RecordSizes(stream) == RecordSizesFrom(stream, 1)

\* number of feature indices row r stores
NonzeroCount(M, r) == Cardinality(RowCols(M, r))

\* fields of a sparse record with k entries: shape, key count, k keys,
\* k values, label
SparseRecordSize(k) == 2 * k + 3

\* every record of the stream has the sparse size of its row
SparseSized(stream) ==
    /\ Len(RecordSizes(stream)) = X.nrow
    /\ \A r \in 1..X.nrow :
          RecordSizes(stream)[r] = SparseRecordSize(NonzeroCount(X, r - 1))

\* C11 as claimed: every record produced for a row with k nonzero entries has
\* a size that depends on k only, and no dense row of featureCount entries
\* is built at any point of the conversion of a dataset to records.
C11_AsClaimed ==
    /\ dense = <<>>
    /\ buf # <<>> => SparseSized(buf)
    /\ record_data_train # <<>> => SparseSized(record_data_train)

\* C11 amended: sparsity scaling holds for writeDatasetToProtobuf: each
\* record it writes for a row with k stored indices has 2k+3 fields, whatever
\* featureCount is, and the call builds no dense row. The Option 1
\* conversion (fm.record_set on X[0:max_records].values) builds dense rows
\* of featureCount entries and writes records of featureCount values plus
\* the label.
C11_SparseInOption2Only ==
    [][ /\ buf' # <<>> => SparseSized(buf)'
        /\ buf' # buf => dense' = dense
        /\ dense' # <<>> =>
              /\ Len(dense') = X.nrow
              /\ \A r \in 1..Len(dense') : Len(dense'[r]) = X.ncol
        /\ record_data_train' # <<>> =>
              /\ Len(RecordSizes(record_data_train')) = Len(dense')
              /\ \A r \in 1..Len(dense') :
                    RecordSizes(record_data_train')[r] = X.ncol + 1 ]_vars

\* Option 2 alone converted a matrix of two features whose first row stores
\* one of them: a record of 5 fields, no dense row
C11_Witness ==
    /\ pc = "converted"
    /\ dense = <<>>
    /\ record_data_train = <<>>
    /\ X.ncol = 2
    /\ NonzeroCount(X, 0) = 1
    /\ RecordSizes(buf)[1] = 5

====
